---- MODULE Spec2Model ----
(***************************************************************************)
(* Block lifecycle cache of components/chain: BlockWrapper drives the      *)
(* three block caches and the chain tip of the State it belongs to.        *)
(***************************************************************************)
EXTENDS Integers, Sequences, FiniteSets, TLC

\* ---------------------------------------------------------------- bounds
MaxID == 2
MaxOps == 2
UnverifiedCap == 1
DecidedCap == 1

\* ------------------------------------------------------------ the values
IDs == 1..MaxID

\* a BlockWrapper: the identifier of the wrapped Block and which of the
\* wrappers around that Block it is (the first block has been wrapped twice)
Handles == [id : IDs, copy : {1}] \cup {[id |-> 1, copy |-> 2]}

\* the value lastAcceptedBlock has before any acceptance
Genesis == [id |-> 0, copy |-> 1]

\* no wrapper at all
NoHandle == [id |-> 0, copy |-> 0]

\* what a call into the embedded Block returns: nil, or the error of that call
Nil == "nil"
ErrVerify == "Block.Verify failed"
ErrShouldVerify == "Block.ShouldVerifyWithContext failed"
ErrVerifyWithContext == "Block.VerifyWithContext failed"
ErrAccept == "Block.Accept failed"
ErrReject == "Block.Reject failed"

\* bw.ID(): the identifier of the embedded Block
BlkID(h) == h.id

\* bw.Block.(block.WithVerifyContext): whether the embedded Block has the
\* context-aware verification capability (a fixed property of the Block)
HasVerifyContext(h) == BlkID(h) % 2 = 0

\* ------------------------------------------------- the eviction cache
\* A cache is the sequence of its entries, least recently used first; the
\* key of an entry is the identifier of the wrapper it holds.
CacheKeys(c) == {BlkID(c[i]) : i \in DOMAIN c}

CacheHas(c, id) == id \in CacheKeys(c)

CacheGet(c, id) ==
    IF CacheHas(c, id)
    THEN (CHOOSE i \in DOMAIN c : BlkID(c[i]) = id)
    ELSE 0

CacheValue(c, id) == IF CacheHas(c, id) THEN c[CacheGet(c, id)] ELSE NoHandle

RECURSIVE CacheEvict(_, _)
CacheEvict(c, id) ==
    IF c = <<>> THEN <<>>
    ELSE IF BlkID(Head(c)) = id THEN CacheEvict(Tail(c), id)
    ELSE <<Head(c)>> \o CacheEvict(Tail(c), id)

\* Put, were it to keep every entry whatever the capacity
CachePutNoEvict(c, cap, h) == Append(CacheEvict(c, BlkID(h)), h)

CachePut(c, cap, h) ==
    LET d == Append(CacheEvict(c, BlkID(h)), h)
    IN  IF Len(d) > cap THEN Tail(d) ELSE d

\* ------------------------------------------------------ the plain map
MapHas(m, id) == id \in DOMAIN m

MapPut(m, id, h) == [k \in DOMAIN m \cup {id} |-> IF k = id THEN h ELSE m[k]]

MapDelete(m, id) == [k \in DOMAIN m \ {id} |-> m[k]]

EmptyMap == [k \in {} |-> NoHandle]

\* ------------------------------------------------------------ the state
VARIABLES unverifiedBlocks, verifiedBlocks, decidedBlocks, lastAcceptedBlock,
          lifecycle, trace, threads

vars == <<unverifiedBlocks, verifiedBlocks, decidedBlocks, lastAcceptedBlock,
          lifecycle, trace, threads>>

\* the fields of State that BlockWrapper reads and writes
State == [unverifiedBlocks |-> unverifiedBlocks,
          verifiedBlocks |-> verifiedBlocks,
          decidedBlocks |-> decidedBlocks,
          lastAcceptedBlock |-> lastAcceptedBlock]

\* one call into the embedded Block and what it returned
Call(fn, val, err) == [fn |-> fn, val |-> val, err |-> err]

\* the state a method leaves, the error it returns, the calls it made into
\* the embedded Block and, for a method that returns one, the boolean
OutcomeVal(s, val, ret, calls) ==
    [st |-> s, val |-> val, ret |-> ret, calls |-> calls]

Outcome(s, ret, calls) == OutcomeVal(s, FALSE, ret, calls)

\* ------------------------------------------------------- the handlers
\* Verify, were it to insert into verifiedBlocks before looking at the error
VerifyCachesFailure(s, h, verr) ==
    Outcome([s EXCEPT
               !.unverifiedBlocks = IF verr = Nil THEN CacheEvict(@, BlkID(h)) ELSE @,
               !.verifiedBlocks = MapPut(@, BlkID(h), h)],
            verr, <<Call("Block.Verify", FALSE, verr)>>)

\* Verify, were it to evict from unverifiedBlocks before looking at the error
VerifyEvictsOnFailure(s, h, verr) ==
    IF verr # Nil
    THEN Outcome([s EXCEPT !.unverifiedBlocks = CacheEvict(@, BlkID(h))],
                 verr, <<Call("Block.Verify", FALSE, verr)>>)
    ELSE Outcome([s EXCEPT
                    !.unverifiedBlocks = CacheEvict(@, BlkID(h)),
                    !.verifiedBlocks = MapPut(@, BlkID(h), h)],
                 Nil, <<Call("Block.Verify", FALSE, Nil)>>)

\* Verify, were it to leave the identifier in unverifiedBlocks
VerifyNoEvict(s, h, verr) ==
    IF verr # Nil
    THEN Outcome(s, verr, <<Call("Block.Verify", FALSE, verr)>>)
    ELSE Outcome([s EXCEPT !.verifiedBlocks = MapPut(@, BlkID(h), h)],
                 Nil, <<Call("Block.Verify", FALSE, Nil)>>)

\* verr: what bw.Block.Verify returns
Verify(s, h, verr) ==
    IF verr # Nil
    THEN Outcome(s, verr, <<Call("Block.Verify", FALSE, verr)>>)
    ELSE Outcome([s EXCEPT
                    !.unverifiedBlocks = CacheEvict(@, BlkID(h)),
                    !.verifiedBlocks = MapPut(@, BlkID(h), h)],
                 Nil, <<Call("Block.Verify", FALSE, Nil)>>)

\* VerifyWithContext, were it to refuse a Block without the capability
\* instead of falling back to Verify
VerifyWithContextNoFallback(s, h, should, serr, cerr, verr) ==
    LET probe == Call("Block.ShouldVerifyWithContext", should, serr)
        fall == Verify(s, h, verr)
    IN  IF HasVerifyContext(h)
        THEN IF serr # Nil
             THEN Outcome(s, serr, <<probe>>)
             ELSE IF should
                  THEN Outcome(s, cerr,
                         <<probe, Call("Block.VerifyWithContext", FALSE, cerr)>>)
                  ELSE Outcome(fall.st, fall.ret, <<probe>> \o fall.calls)
        ELSE Outcome(s, "expected block.WithVerifyContext", <<>>)

\* VerifyWithContext, were it to drop the error of the probe and fall back
\* to Verify
VerifyWithContextIgnoresProbeError(s, h, should, serr, cerr, verr) ==
    LET probe == Call("Block.ShouldVerifyWithContext", should, serr)
        fall == Verify(s, h, verr)
    IN  IF HasVerifyContext(h)
        THEN IF serr = Nil /\ should
             THEN Outcome(s, cerr,
                    <<probe, Call("Block.VerifyWithContext", FALSE, cerr)>>)
             ELSE Outcome(fall.st, fall.ret, <<probe>> \o fall.calls)
        ELSE fall

\* should, serr: what withCtx.ShouldVerifyWithContext returns
\* cerr: what withCtx.VerifyWithContext returns
VerifyWithContext(s, h, should, serr, cerr, verr) ==
    LET probe == Call("Block.ShouldVerifyWithContext", should, serr)
        fall == Verify(s, h, verr)
    IN  IF HasVerifyContext(h)
        THEN IF serr # Nil
             THEN Outcome(s, serr, <<probe>>)
             ELSE IF should
                  THEN Outcome(s, cerr,
                         <<probe, Call("Block.VerifyWithContext", FALSE, cerr)>>)
                  ELSE Outcome(fall.st, fall.ret, <<probe>> \o fall.calls)
        ELSE fall

\* ShouldVerifyWithContext, were it to report a Block without the capability
\* as an error
ShouldVerifyWithContextStrict(s, h, should, serr) ==
    IF ~HasVerifyContext(h)
    THEN OutcomeVal(s, FALSE, "expected block.WithVerifyContext", <<>>)
    ELSE OutcomeVal(s, should, serr,
                    <<Call("Block.ShouldVerifyWithContext", should, serr)>>)

\* should, serr: what blkWithCtx.ShouldVerifyWithContext returns
ShouldVerifyWithContext(s, h, should, serr) ==
    IF ~HasVerifyContext(h)
    THEN OutcomeVal(s, FALSE, Nil, <<>>)
    ELSE OutcomeVal(s, should, serr,
                    <<Call("Block.ShouldVerifyWithContext", should, serr)>>)

\* Accept, were it to undo its bookkeeping when the embedded Block fails
AcceptRollsBack(s, h, aerr) ==
    IF aerr # Nil
    THEN Outcome(s, aerr, <<Call("Block.Accept", FALSE, aerr)>>)
    ELSE Outcome([s EXCEPT
                    !.verifiedBlocks = MapDelete(@, BlkID(h)),
                    !.decidedBlocks = CachePut(@, DecidedCap, h),
                    !.lastAcceptedBlock = h],
                 aerr, <<Call("Block.Accept", FALSE, aerr)>>)

\* Accept, were it to evict the identifier from unverifiedBlocks as well
AcceptEvictsUnverified(s, h, aerr) ==
    Outcome([s EXCEPT
               !.unverifiedBlocks = CacheEvict(@, BlkID(h)),
               !.verifiedBlocks = MapDelete(@, BlkID(h)),
               !.decidedBlocks = CachePut(@, DecidedCap, h),
               !.lastAcceptedBlock = h],
            aerr, <<Call("Block.Accept", FALSE, aerr)>>)

\* Accept, were it to leave the tip pointer alone
AcceptNoTip(s, h, aerr) ==
    Outcome([s EXCEPT
               !.verifiedBlocks = MapDelete(@, BlkID(h)),
               !.decidedBlocks = CachePut(@, DecidedCap, h)],
            aerr, <<Call("Block.Accept", FALSE, aerr)>>)

\* Accept, were it to leave the identifier in verifiedBlocks
AcceptNoDelete(s, h, aerr) ==
    Outcome([s EXCEPT
               !.decidedBlocks = CachePut(@, DecidedCap, h),
               !.lastAcceptedBlock = h],
            aerr, <<Call("Block.Accept", FALSE, aerr)>>)

\* aerr: what bw.Block.Accept returns
Accept(s, h, aerr) ==
    Outcome([s EXCEPT
               !.verifiedBlocks = MapDelete(@, BlkID(h)),
               !.decidedBlocks = CachePut(@, DecidedCap, h),
               !.lastAcceptedBlock = h],
            aerr, <<Call("Block.Accept", FALSE, aerr)>>)

\* Reject, were it to move the tip pointer as Accept does
RejectSetsTip(s, h, rerr) ==
    Outcome([s EXCEPT
               !.verifiedBlocks = MapDelete(@, BlkID(h)),
               !.decidedBlocks = CachePut(@, DecidedCap, h),
               !.lastAcceptedBlock = h],
            rerr, <<Call("Block.Reject", FALSE, rerr)>>)

\* Reject, were it to store the wrapper in verifiedBlocks instead of deleting it
RejectKeepsVerified(s, h, rerr) ==
    Outcome([s EXCEPT
               !.verifiedBlocks = MapPut(@, BlkID(h), h),
               !.decidedBlocks = CachePut(@, DecidedCap, h)],
            rerr, <<Call("Block.Reject", FALSE, rerr)>>)

\* rerr: what bw.Block.Reject returns
Reject(s, h, rerr) ==
    Outcome([s EXCEPT
               !.verifiedBlocks = MapDelete(@, BlkID(h)),
               !.decidedBlocks = CachePut(@, DecidedCap, h)],
            rerr, <<Call("Block.Reject", FALSE, rerr)>>)

\* a block not held by any cache is parsed or fetched and cached as unverified
InsertUnverified(s, h) ==
    Outcome([s EXCEPT !.unverifiedBlocks = CachePut(@, UnverifiedCap, h)],
            Nil, <<>>)

\* ------------------------------------------------------------ the steps
VerifyOps == {"Verify", "VerifyWithContext"}
DecideOps == {"Accept", "Reject"}

\* the most recent lifecycle event of an identifier, as the caller saw it
NextLifecycle(op, h, ret) ==
    IF op \in VerifyOps /\ ret = Nil
    THEN [lifecycle EXCEPT ![BlkID(h)] = [status |-> "verified", h |-> h]]
    ELSE IF op \in DecideOps
         THEN [lifecycle EXCEPT ![BlkID(h)] = [status |-> "decided", h |-> NoHandle]]
         ELSE lifecycle

\* the engine's record follows the call that has just returned
Track == lifecycle' = NextLifecycle(trace'.op, trace'.h, trace'.ret)

\* whether the cache the operation takes the identifier from holds it
Held(op, id) ==
    \/ op \in VerifyOps /\ CacheHas(unverifiedBlocks, id)
    \/ op \in DecideOps /\ MapHas(verifiedBlocks, id)

Apply(op, h, out) ==
    /\ unverifiedBlocks' = out.st.unverifiedBlocks
    /\ verifiedBlocks' = out.st.verifiedBlocks
    /\ decidedBlocks' = out.st.decidedBlocks
    /\ lastAcceptedBlock' = out.st.lastAcceptedBlock
    /\ trace' = [op |-> op, h |-> h, val |-> out.val, ret |-> out.ret,
                 calls |-> out.calls, pre |-> Held(op, BlkID(h))]
    /\ threads' = threads

Cached(id) ==
    \/ CacheHas(unverifiedBlocks, id)
    \/ MapHas(verifiedBlocks, id)
    \/ CacheHas(decidedBlocks, id)

InsertStep(h) ==
    /\ ~Cached(BlkID(h))
    /\ Apply("Insert", h, InsertUnverified(State, h))

VerifyStep(h) ==
    \E verr \in {Nil, ErrVerify} : Apply("Verify", h, Verify(State, h, verr))

\* the embedded Block's answers that the call does not ask for are left out
Asked(h, should, serr, cerr, verr) ==
    LET ctx == HasVerifyContext(h) /\ serr = Nil /\ should
    IN  /\ ~HasVerifyContext(h) => (~should /\ serr = Nil)
        /\ serr # Nil => ~should
        /\ ~ctx => cerr = Nil
        /\ (ctx \/ serr # Nil) => verr = Nil

VerifyWithContextStep(h) ==
    \E should \in BOOLEAN, serr \in {Nil, ErrShouldVerify},
       cerr \in {Nil, ErrVerifyWithContext}, verr \in {Nil, ErrVerify} :
        /\ Asked(h, should, serr, cerr, verr)
        /\ Apply("VerifyWithContext", h,
                 VerifyWithContext(State, h, should, serr, cerr, verr))

ShouldVerifyWithContextStep(h) ==
    \E should \in BOOLEAN, serr \in {Nil, ErrShouldVerify} :
        /\ ~HasVerifyContext(h) => (~should /\ serr = Nil)
        /\ serr # Nil => ~should
        /\ Apply("ShouldVerifyWithContext", h,
                 ShouldVerifyWithContext(State, h, should, serr))

AcceptStep(h) ==
    \E aerr \in {Nil, ErrAccept} : Apply("Accept", h, Accept(State, h, aerr))

RejectStep(h) ==
    \E rerr \in {Nil, ErrReject} : Apply("Reject", h, Reject(State, h, rerr))

\* ------------------------------------------- any caller, any sequence
DoInsert == \E h \in Handles : InsertStep(h) /\ UNCHANGED lifecycle
DoVerify == \E h \in Handles : VerifyStep(h) /\ UNCHANGED lifecycle
DoVerifyWithContext ==
    \E h \in Handles : VerifyWithContextStep(h) /\ UNCHANGED lifecycle
DoShouldVerifyWithContext ==
    \E h \in Handles : ShouldVerifyWithContextStep(h) /\ UNCHANGED lifecycle
DoAccept == \E h \in Handles : AcceptStep(h) /\ UNCHANGED lifecycle
DoReject == \E h \in Handles : RejectStep(h) /\ UNCHANGED lifecycle

\* the callers of the statement-level specifications
Threads == {"g1", "g2"}

\* a caller outside any method; done: the calls it has made so far
Idle(done) == [pc |-> 0, op |-> "none", h |-> NoHandle, verr |-> Nil, done |-> done]

\* State after construction
InitState == [unverifiedBlocks |-> <<>>,
              verifiedBlocks |-> EmptyMap,
              decidedBlocks |-> <<>>,
              lastAcceptedBlock |-> Genesis]

Init ==
    /\ unverifiedBlocks = InitState.unverifiedBlocks
    /\ verifiedBlocks = InitState.verifiedBlocks
    /\ decidedBlocks = InitState.decidedBlocks
    /\ lastAcceptedBlock = InitState.lastAcceptedBlock
    /\ threads = [t \in Threads |-> Idle(<<>>)]
    /\ lifecycle = [id \in IDs |-> [status |-> "new", h |-> NoHandle]]
    /\ trace = [op |-> "init", h |-> Genesis, val |-> FALSE, ret |-> Nil,
                calls |-> <<>>, pre |-> FALSE]

Next ==
    \/ DoInsert
    \/ DoVerify
    \/ DoVerifyWithContext
    \/ DoShouldVerifyWithContext
    \/ DoAccept
    \/ DoReject

Spec == Init /\ [][Next]_vars

\* ------------------------------------- the methods, statement by statement
\* Accept, were it to call the embedded Block before its bookkeeping
ProgramDelegateFirst(op) ==
    CASE op = "Verify" -> <<"verify", "evict", "store">>
      [] op = "Accept" -> <<"delegate", "delete", "put", "tip">>
      [] op = "Reject" -> <<"delete", "put", "delegate">>

\* the statements of a method in the order of its source
Program(op) ==
    CASE op = "Verify" -> <<"verify", "evict", "store">>
      [] op = "Accept" -> <<"delete", "put", "tip", "delegate">>
      [] op = "Reject" -> <<"delete", "put", "delegate">>

\* the statement a caller is about to execute
Statement(th) == IF th.pc = 0 THEN "none" ELSE Program(th.op)[th.pc]

\* the effect of one statement on State
Exec(stmt, s, h) ==
    CASE stmt = "evict" ->
           [s EXCEPT !.unverifiedBlocks = CacheEvict(@, BlkID(h))]
      [] stmt = "store" ->
           [s EXCEPT !.verifiedBlocks = MapPut(@, BlkID(h), h)]
      [] stmt = "delete" ->
           [s EXCEPT !.verifiedBlocks = MapDelete(@, BlkID(h))]
      [] stmt = "put" ->
           [s EXCEPT !.decidedBlocks = CachePut(@, DecidedCap, h)]
      [] stmt = "tip" ->
           [s EXCEPT !.lastAcceptedBlock = h]
      [] OTHER -> s

\* whether the method returns after the statement at th.pc
Returns(th) ==
    \/ th.pc = Len(Program(th.op))
    \/ Statement(th) = "verify" /\ th.verr # Nil

SetState(s) ==
    /\ unverifiedBlocks' = s.unverifiedBlocks
    /\ verifiedBlocks' = s.verifiedBlocks
    /\ decidedBlocks' = s.decidedBlocks
    /\ lastAcceptedBlock' = s.lastAcceptedBlock

\* the number of calls made so far
Calls == Len(threads["g1"].done) + Len(threads["g2"].done)

\* caller t enters method op of wrapper h; verr is what the embedded Block's
\* Verify will return
Enter(t, op, h, verr) ==
    /\ threads[t].pc = 0
    /\ Calls < MaxOps
    /\ op # "Verify" => verr = Nil
    /\ threads' = [threads EXCEPT ![t] =
                      [pc |-> 1, op |-> op, h |-> h, verr |-> verr,
                       done |-> Append(@.done, [op |-> op, h |-> h, verr |-> verr])]]
    /\ UNCHANGED <<unverifiedBlocks, verifiedBlocks, decidedBlocks,
                   lastAcceptedBlock, lifecycle, trace>>

\* caller t executes its next statement
ExecStatement ==
    \E t \in Threads :
        /\ threads[t].pc > 0
        /\ SetState(Exec(Statement(threads[t]), State, threads[t].h))
        /\ threads' = [threads EXCEPT ![t] =
                          IF Returns(@) THEN Idle(@.done)
                          ELSE [@ EXCEPT !.pc = @ + 1]]
        /\ UNCHANGED <<lifecycle, trace>>

\* the engine serializes the calls: one method runs at a time
StepEnter ==
    \E t \in Threads, op \in {"Verify", "Accept", "Reject"}, h \in Handles,
       verr \in {Nil, ErrVerify} :
        /\ \A u \in Threads : threads[u].pc = 0
        /\ Enter(t, op, h, verr)

StepNext ==
    \/ StepEnter
    \/ ExecStatement

StepSpec == Init /\ [][StepNext]_vars

\* callers run methods at the same time on wrappers of different identifiers
ConcEnter ==
    \E t \in Threads, op \in {"Verify", "Accept", "Reject"}, h \in Handles,
       verr \in {Nil, ErrVerify} :
        /\ \A u \in Threads \ {t} :
              threads[u].pc > 0 => BlkID(threads[u].h) # BlkID(h)
        /\ Enter(t, op, h, verr)

ConcNext ==
    \/ ConcEnter
    \/ ExecStatement

ConcSpec == Init /\ [][ConcNext]_vars

\* the state a call leaves when it runs alone
SerialApply(s, e) ==
    CASE e.op = "Verify" -> Verify(s, e.h, e.verr).st
      [] e.op = "Accept" -> Accept(s, e.h, Nil).st
      [] e.op = "Reject" -> Reject(s, e.h, Nil).st

\* the states the calls of a and of b leave from s when they run one at a
\* time, in any order that keeps the order of a and the order of b
RECURSIVE SerialFinals(_, _, _)
SerialFinals(a, b, s) ==
    IF a = <<>> /\ b = <<>> THEN {s}
    ELSE (IF a # <<>> THEN SerialFinals(Tail(a), b, SerialApply(s, Head(a))) ELSE {})
         \cup
         (IF b # <<>> THEN SerialFinals(a, Tail(b), SerialApply(s, Head(b))) ELSE {})

\* ------------------- the consensus engine: verify, then decide at most once
EngineInsert == \E h \in Handles : InsertStep(h) /\ Track

EngineVerify ==
    \E h \in Handles :
        /\ lifecycle[BlkID(h)].status = "new"
        /\ VerifyStep(h)
        /\ Track

EngineVerifyWithContext ==
    \E h \in Handles :
        /\ lifecycle[BlkID(h)].status = "new"
        /\ VerifyWithContextStep(h)
        /\ Track

EngineShouldVerifyWithContext ==
    \E h \in Handles :
        /\ lifecycle[BlkID(h)].status = "new"
        /\ ShouldVerifyWithContextStep(h)
        /\ Track

EngineAccept ==
    \E h \in Handles :
        /\ lifecycle[BlkID(h)] = [status |-> "verified", h |-> h]
        /\ AcceptStep(h)
        /\ Track

EngineReject ==
    \E h \in Handles :
        /\ lifecycle[BlkID(h)] = [status |-> "verified", h |-> h]
        /\ RejectStep(h)
        /\ Track

EngineNext ==
    \/ EngineInsert
    \/ EngineVerify
    \/ EngineVerifyWithContext
    \/ EngineShouldVerifyWithContext
    \/ EngineAccept
    \/ EngineReject

EngineSpec == Init /\ [][EngineNext]_vars

\* the engine's decision of the block whose verification through h it saw
\* succeed
EngineDecide(h) ==
    /\ lifecycle[BlkID(h)] = [status |-> "verified", h |-> h]
    /\ (AcceptStep(h) \/ RejectStep(h))
    /\ Track

\* every block that passed verification is eventually decided
EngineFairness == \A h \in Handles : WF_vars(EngineDecide(h))

EngineFairSpec == EngineSpec /\ EngineFairness

\* ------------------------------------------------------------ properties
LifecycleOps == VerifyOps \cup DecideOps

\* the call t made the embedded Block's fn, which returned err
Returned(t, fn, err) ==
    \E i \in DOMAIN t.calls : t.calls[i].fn = fn /\ t.calls[i].err = err

\* the call t asked the embedded Block whether to verify with context and
\* was told (false, nil)
ToldNo(t) ==
    \E i \in DOMAIN t.calls :
        t.calls[i] = Call("Block.ShouldVerifyWithContext", FALSE, Nil)

InUnverified(id) == CacheHas(unverifiedBlocks, id)
InVerified(id) == MapHas(verifiedBlocks, id)
InDecided(id) == CacheHas(decidedBlocks, id)

\* C1: every identifier is in at most one of unverifiedBlocks, verifiedBlocks
\* and decidedBlocks.
I1 ==
    \A id \in IDs :
        /\ ~(InUnverified(id) /\ InVerified(id))
        /\ ~(InUnverified(id) /\ InDecided(id))
        /\ ~(InVerified(id) /\ InDecided(id))

I3 ==
    /\ lastAcceptedBlock = Genesis
    /\ [][/\ trace'.op = "Accept" => lastAcceptedBlock' = trace'.h
          /\ trace'.op # "Accept" => lastAcceptedBlock' = lastAcceptedBlock]_vars

\* the second wrapper of block 1 has been accepted, then another block rejected
I3Witness ==
    /\ trace.op = "Reject"
    /\ lastAcceptedBlock = [id |-> 1, copy |-> 2]
    /\ BlkID(trace.h) # 1

\* C4: an entry of verifiedBlocks is added or replaced only by a step in
\* which the embedded Block's Verify of that identifier returned nil.
I4 ==
    [][\A id \in IDs :
         (/\ MapHas(verifiedBlocks', id)
          /\ (InVerified(id) => verifiedBlocks'[id] # verifiedBlocks[id])) =>
            /\ BlkID(trace'.h) = id
            /\ Returned(trace', "Block.Verify", Nil)]_vars

\* VerifyWithContext has fallen back to a successful Verify, which has put
\* the wrapper into verifiedBlocks
I4Witness ==
    /\ trace.op = "VerifyWithContext"
    /\ ToldNo(trace)
    /\ Returned(trace, "Block.Verify", Nil)
    /\ InVerified(BlkID(trace.h))
    /\ verifiedBlocks[BlkID(trace.h)] = trace.h

VerifySuccess ==
    (trace.op = "Verify" /\ trace.ret = Nil) =>
        /\ ~InUnverified(BlkID(trace.h))
        /\ CacheValue(unverifiedBlocks, BlkID(trace.h)) = NoHandle
        /\ InVerified(BlkID(trace.h))
        /\ verifiedBlocks[BlkID(trace.h)] = trace.h

\* Verify has succeeded on a block that unverifiedBlocks did not hold, while
\* unverifiedBlocks held another block, which it still holds
VerifySuccessWitness ==
    /\ trace.op = "Verify"
    /\ trace.ret = Nil
    /\ ~trace.pre
    /\ unverifiedBlocks # <<>>
    /\ InVerified(BlkID(trace.h))
    /\ verifiedBlocks[BlkID(trace.h)] = trace.h

\* C7: after an Accept, verifiedBlocks does not hold the identifier,
\* decidedBlocks holds it and lastAcceptedBlock has that identifier.
AcceptPost ==
    trace.op = "Accept" =>
        /\ ~InVerified(BlkID(trace.h))
        /\ InDecided(BlkID(trace.h))
        /\ BlkID(lastAcceptedBlock) = BlkID(trace.h)

\* Accept has run on a block that verifiedBlocks did not hold
AcceptPostWitness ==
    /\ trace.op = "Accept"
    /\ ~trace.pre
    /\ InDecided(BlkID(trace.h))
    /\ lastAcceptedBlock = trace.h

\* C8: after a Reject, verifiedBlocks does not hold the identifier,
\* decidedBlocks holds it and lastAcceptedBlock is what it was.
RejectPost ==
    [][trace'.op = "Reject" =>
          /\ ~MapHas(verifiedBlocks', BlkID(trace'.h))
          /\ CacheHas(decidedBlocks', BlkID(trace'.h))
          /\ lastAcceptedBlock' = lastAcceptedBlock]_vars

\* a verified block has been rejected after another block was accepted
RejectPostWitness ==
    /\ trace.op = "Reject"
    /\ trace.pre
    /\ lastAcceptedBlock # Genesis
    /\ InDecided(BlkID(trace.h))
    /\ ~InVerified(BlkID(trace.h))

\* C9: after a VerifyWithContext whose context-aware verification returned
\* nil, unverifiedBlocks does not hold the identifier and verifiedBlocks maps
\* it to the wrapper, as after a successful Verify.
VerifyWithContextBookkeeping ==
    (trace.op = "VerifyWithContext"
       /\ Returned(trace, "Block.VerifyWithContext", Nil)) =>
        /\ ~InUnverified(BlkID(trace.h))
        /\ InVerified(BlkID(trace.h))
        /\ verifiedBlocks[BlkID(trace.h)] = trace.h

\* C10: a VerifyWithContext on a Block without the capability, or told
\* (false, nil) by it, returns what Verify returns and leaves the state
\* Verify leaves, given the same answer of the embedded Block's Verify.
FallbackIsVerify ==
    [][(/\ trace'.op = "VerifyWithContext"
        /\ (~HasVerifyContext(trace'.h) \/ ToldNo(trace'))) =>
          \E verr \in {Nil, ErrVerify} :
             /\ trace'.calls # <<>>
             /\ trace'.calls[Len(trace'.calls)] = Call("Block.Verify", FALSE, verr)
             /\ trace'.ret = Verify(State, trace'.h, verr).ret
             /\ Verify(State, trace'.h, verr).st =
                   [unverifiedBlocks |-> unverifiedBlocks',
                    verifiedBlocks |-> verifiedBlocks',
                    decidedBlocks |-> decidedBlocks',
                    lastAcceptedBlock |-> lastAcceptedBlock']]_vars

\* VerifyWithContext on a Block without the capability has moved the block
\* from unverifiedBlocks to verifiedBlocks
FallbackIsVerifyWitness ==
    /\ trace.op = "VerifyWithContext"
    /\ ~HasVerifyContext(trace.h)
    /\ trace.ret = Nil
    /\ trace.pre
    /\ ~InUnverified(BlkID(trace.h))
    /\ InVerified(BlkID(trace.h))
    /\ verifiedBlocks[BlkID(trace.h)] = trace.h

\* C11: ShouldVerifyWithContext leaves the three caches and lastAcceptedBlock
\* as they were, and on a Block without the capability it returns
\* (false, nil) without calling into the Block.
ProbeIsPure ==
    [][trace'.op = "ShouldVerifyWithContext" =>
          /\ UNCHANGED <<unverifiedBlocks, verifiedBlocks, decidedBlocks,
                         lastAcceptedBlock>>
          /\ ~HasVerifyContext(trace'.h) =>
                (~trace'.val /\ trace'.ret = Nil /\ trace'.calls = <<>>)]_vars

\* the probe has run on a Block without the capability while the caches
\* held blocks
ProbeIsPureWitness ==
    /\ trace.op = "ShouldVerifyWithContext"
    /\ ~HasVerifyContext(trace.h)
    /\ ~trace.val
    /\ trace.ret = Nil
    /\ unverifiedBlocks # <<>>
    /\ InVerified(BlkID(trace.h))
    /\ decidedBlocks # <<>>

\* C12: an Accept (Reject) whose embedded Block's Accept (Reject) returns an
\* error returns that error with the bookkeeping kept: the identifier is out
\* of verifiedBlocks and in decidedBlocks, and after Accept lastAcceptedBlock
\* is the wrapper.
NoRollback ==
    /\ (trace.op = "Accept" /\ Returned(trace, "Block.Accept", ErrAccept)) =>
          /\ trace.ret = ErrAccept
          /\ ~InVerified(BlkID(trace.h))
          /\ InDecided(BlkID(trace.h))
          /\ lastAcceptedBlock = trace.h
    /\ (trace.op = "Reject" /\ Returned(trace, "Block.Reject", ErrReject)) =>
          /\ trace.ret = ErrReject
          /\ ~InVerified(BlkID(trace.h))
          /\ InDecided(BlkID(trace.h))

\* the Accept of a verified block has failed in the embedded Block
NoRollbackWitness ==
    /\ trace.op = "Accept"
    /\ trace.ret = ErrAccept
    /\ trace.pre
    /\ ~InVerified(BlkID(trace.h))
    /\ CacheValue(decidedBlocks, BlkID(trace.h)) = trace.h
    /\ lastAcceptedBlock = trace.h

\* C18: a VerifyWithContext whose probe of the embedded Block returns an
\* error returns that error after that one call into the Block and leaves
\* the three caches and lastAcceptedBlock as they were.
ProbeError ==
    [][(/\ trace'.op = "VerifyWithContext"
        /\ Returned(trace', "Block.ShouldVerifyWithContext", ErrShouldVerify)) =>
          /\ trace'.ret = ErrShouldVerify
          /\ Len(trace'.calls) = 1
          /\ ~\E e \in {Nil, ErrVerify} : Returned(trace', "Block.Verify", e)
          /\ ~\E e \in {Nil, ErrVerifyWithContext} :
                 Returned(trace', "Block.VerifyWithContext", e)
          /\ UNCHANGED <<unverifiedBlocks, verifiedBlocks, decidedBlocks,
                         lastAcceptedBlock>>]_vars

\* the probe has failed for a block held by unverifiedBlocks, which still
\* holds it
ProbeErrorWitness ==
    /\ trace.op = "VerifyWithContext"
    /\ trace.ret = ErrShouldVerify
    /\ trace.pre
    /\ InUnverified(BlkID(trace.h))
    /\ ~InVerified(BlkID(trace.h))

\* C19: Verify and VerifyWithContext leave decidedBlocks and
\* lastAcceptedBlock as they were, Accept and Reject leave unverifiedBlocks
\* as it was, and each of the four leaves the entries of verifiedBlocks for
\* the other identifiers as they were.
Frame ==
    [][/\ trace'.op \in VerifyOps =>
             /\ decidedBlocks' = decidedBlocks
             /\ lastAcceptedBlock' = lastAcceptedBlock
       /\ trace'.op \in DecideOps => unverifiedBlocks' = unverifiedBlocks
       /\ trace'.op \in LifecycleOps =>
             \A id \in IDs \ {BlkID(trace'.h)} :
                /\ MapHas(verifiedBlocks', id) = InVerified(id)
                /\ InVerified(id) => verifiedBlocks'[id] = verifiedBlocks[id]]_vars

\* Accept has run on a block while unverifiedBlocks held that block and
\* verifiedBlocks another one: both are still held
FrameWitness ==
    /\ trace.op = "Accept"
    /\ InUnverified(BlkID(trace.h))
    /\ \E id \in IDs \ {BlkID(trace.h)} : InVerified(id)

Drained ==
    /\ \A id \in IDs : InVerified(id) ~> ~InVerified(id)
    /\ [][\A id \in IDs :
             (InVerified(id) /\ ~MapHas(verifiedBlocks', id)) =>
                (trace'.op \in DecideOps /\ BlkID(trace'.h) = id)]_vars

\* the engine has decided a block that verifiedBlocks held, which no longer
\* holds it
DrainedWitness ==
    /\ trace.op \in DecideOps
    /\ trace.pre
    /\ lifecycle[BlkID(trace.h)].status = "decided"
    /\ ~InVerified(BlkID(trace.h))
    /\ InDecided(BlkID(trace.h))

\* C17: verifiedBlocks holds exactly the identifiers whose most recent
\* lifecycle event is a verification that succeeded through a wrapper.
VerifiedIsLive ==
    \A id \in IDs : InVerified(id) <=> lifecycle[id].status = "verified"

\* C14: when Accept (Reject) is about to call the embedded Block's Accept
\* (Reject), the identifier is out of verifiedBlocks and in decidedBlocks,
\* and for Accept lastAcceptedBlock is the wrapper.
BookkeepingFirst ==
    \A t \in Threads :
        (threads[t].op \in DecideOps /\ Statement(threads[t]) = "delegate") =>
            /\ ~InVerified(BlkID(threads[t].h))
            /\ InDecided(BlkID(threads[t].h))
            /\ threads[t].op = "Accept" => lastAcceptedBlock = threads[t].h

\* Accept is about to call the embedded Block for a block it has just taken
\* out of verifiedBlocks
BookkeepingFirstWitness ==
    \E t \in Threads :
        /\ threads[t].op = "Accept"
        /\ Statement(threads[t]) = "delegate"
        /\ \E i \in DOMAIN threads[t].done :
              threads[t].done[i] = [op |-> "Verify", h |-> threads[t].h, verr |-> Nil]
        /\ CacheValue(decidedBlocks, BlkID(threads[t].h)) = threads[t].h
        /\ lastAcceptedBlock = threads[t].h

\* C15: when no method is running, the three caches and lastAcceptedBlock
\* are what the calls made so far leave when run one at a time in some order.
Serializable ==
    (\A t \in Threads : threads[t].pc = 0) =>
        State \in SerialFinals(threads["g1"].done, threads["g2"].done, InitState)

TypeOK ==
    /\ \A i \in DOMAIN unverifiedBlocks : unverifiedBlocks[i] \in Handles
    /\ \A i \in DOMAIN decidedBlocks : decidedBlocks[i] \in Handles
    /\ DOMAIN verifiedBlocks \subseteq IDs
    /\ \A id \in DOMAIN verifiedBlocks : verifiedBlocks[id] \in Handles
    /\ lastAcceptedBlock \in Handles \cup {Genesis}
====
